---- MODULE Spec2Model ----
(***************************************************************************)
(* bitwrap-machine: the PNML decoder (pnml.py) and the P/T net loader      *)
(* (ptnet.py), as state machines.                                          *)
(*                                                                         *)
(*   SpecDecode  parse_pnml_file on a bounded family of documents, then    *)
(*               Edge.find_source / Edge.find_target on the decoded arcs.  *)
(*   SpecIndex   PTNet(name): load, reindex(), then empty_vector,          *)
(*               inital_vector, to_machine and callers mutating the        *)
(*               returned lists.                                           *)
(*   SpecPath    PNML_PATH, set_pnml_path, schema_to_file, schema_files.   *)
(***************************************************************************)
EXTENDS Integers, Sequences, FiniteSets, TLC

VARIABLES
    doc,        \* the XML document in the file that is opened
    result,     \* outcome of parse_pnml_file(doc)
    lookup,     \* outcome of the last Edge.find_source / Edge.find_target
    environ,    \* os.environ.get('PNML_PATH') when ptnet is imported
    PNML_PATH,  \* ptnet.PNML_PATH, the module global
    requested,  \* history: the directory last passed to set_pnml_path
    resolved,   \* history: results of schema_to_file / schema_files calls
    pc,         \* position inside PTNet.__init__ / reindex
    self,       \* the PTNet object's fields
    calls,      \* history: the dsl functions reindex has invoked, in order
    heap,       \* the list objects allocated so far, by address
    returned    \* history: what each vector / snapshot call returned

vars == <<doc, result, lookup, environ, PNML_PATH, requested, resolved, pc,
          self, calls, heap, returned>>

----------------------------------------------------------------------------
(* Bounds of the model.                                                    *)

MaxStructLen == 4   \* elements in a document of the structural family
MaxSchemaLen == 3   \* elements in a document of the schema family
MaxDepth == 2       \* nesting depth of net elements
MaxPlaces == 2      \* place elements in a document loaded by PTNet
MaxCalls == 2       \* vector / snapshot calls on one PTNet
MaxWrites == 1      \* writes of callers into the lists they were returned
MaxPathCalls == 2   \* recorded schema_to_file / schema_files calls

----------------------------------------------------------------------------
(* Python values.                                                          *)

\* None as the result of Element.get on a missing attribute, and as the
\* default of Edge.role / PetriNet.name.
None == "None"

\* Texts that the decoder converts (float(), int(), split()) are sequences
\* of characters; NoneTxt is None where such a text is expected.
NoneTxt == <<"None">>

NoExc == [type |-> "", arg |-> <<>>]
\* an exception: its class and its args
Exc(type, arg) == [type |-> type, arg |-> <<arg>>]
Ok(v) == [exc |-> NoExc, val |-> v]
Err(e) == [exc |-> e, val |-> 0]
Failed(r) == r.exc # NoExc

Digit ==
    ("0" :> 0) @@ ("1" :> 1) @@ ("2" :> 2) @@ ("3" :> 3) @@ ("4" :> 4) @@
    ("5" :> 5) @@ ("6" :> 6) @@ ("7" :> 7) @@ ("8" :> 8) @@ ("9" :> 9)

IsNumeral(cs) ==
    /\ Len(cs) > 0
    /\ \A k \in 1..Len(cs) : cs[k] \in DOMAIN Digit

RECURSIVE NumeralValue(_)
NumeralValue(cs) ==
    IF cs = <<>> THEN 0
    ELSE 10 * NumeralValue(SubSeq(cs, 1, Len(cs) - 1)) + Digit[cs[Len(cs)]]

\* float(x) / int(x) of an attribute or text: TypeError on None, ValueError
\* on a text that is no numeral.
float(x) ==
    IF x = NoneTxt THEN Err(Exc("TypeError", "float() argument must be a string or a number"))
    ELSE IF IsNumeral(x) THEN Ok(NumeralValue(x))
    ELSE Err(Exc("ValueError", "could not convert string to float"))

int(x) ==
    IF IsNumeral(x) THEN Ok(NumeralValue(x))
    ELSE Err(Exc("ValueError", "invalid literal for int()"))

\* str.split(sep)
RECURSIVE split(_, _)
split(cs, sep) ==
    IF \E k \in 1..Len(cs) : cs[k] = sep
    THEN LET k == CHOOSE k \in 1..Len(cs) :
                    cs[k] = sep /\ \A m \in 1..(k - 1) : cs[m] # sep
         IN  <<SubSeq(cs, 1, k - 1)>> \o split(SubSeq(cs, k + 1, Len(cs)), sep)
    ELSE <<cs>>

\* dict[key] = value on an insertion-ordered dict whose values carry their key
\* in .id: a new key is appended, an existing key keeps its position.
DictSet(d, v) ==
    IF \E k \in 1..Len(d) : d[k].id = v.id
    THEN [k \in 1..Len(d) |-> IF d[k].id = v.id THEN v ELSE d[k]]
    ELSE Append(d, v)

RECURSIVE DictOf(_)
DictOf(vs) ==
    IF vs = <<>> THEN <<>>
    ELSE DictSet(DictOf(SubSeq(vs, 1, Len(vs) - 1)), vs[Len(vs)])

Keys(d) == {d[k].id : k \in 1..Len(d)}
Lookup(d, key) == d[CHOOSE k \in 1..Len(d) : d[k].id = key]

Min(S) == CHOOSE x \in S : \A y \in S : x <= y

----------------------------------------------------------------------------
(* The document: the elements of the XML tree in document order, each with *)
(* its depth below the root (1 = child of the root <pnml>).  An element's  *)
(* child nodes that the decoder reaches with find() are fields of the      *)
(* element: <<>> when find() returns None, else the attributes / text      *)
(* the decoder reads from the node that find() returns.                    *)

Element(tag, depth, id) ==
    [tag |-> tag, depth |-> depth, id |-> id,
     offset |-> <<>>,     \* ./name/graphics/offset : <<x, y>>
     position |-> <<>>,   \* ./graphics/position    : <<x, y>>
     value |-> <<>>,      \* ./initialMarking/value : <<text>>
     type |-> <<>>,       \* type                   : <<value>>
     source |-> None, target |-> None]

NetNode(id, depth) == Element("net", depth, id)
TransitionNode(id, off, pos) ==
    [Element("transition", 0, id) EXCEPT !.offset = off, !.position = pos]
PlaceNode(id, off, pos, val) ==
    [Element("place", 0, id) EXCEPT !.offset = off, !.position = pos, !.value = val]
ArcNode(id, src, tgt, ty) ==
    [Element("arc", 0, id) EXCEPT !.source = src, !.target = tgt, !.type = ty]

\* j is a descendant of i (i = 0 is the root)
IsDescendant(d, i, j) ==
    /\ j > i
    /\ i > 0 => \A k \in (i + 1)..j : d[k].depth > d[i].depth

RECURSIVE Collect(_, _, _, _)
Collect(d, i, tag, j) ==
    IF j > Len(d) THEN <<>>
    ELSE (IF d[j].tag = tag /\ (j = i \/ IsDescendant(d, i, j)) THEN <<j>> ELSE <<>>)
         \o Collect(d, i, tag, j + 1)

\* Element.iter(tag) from element i: i itself and its descendants, in
\* document order, that carry the tag.
iter(d, i, tag) == Collect(d, i, tag, 1)

----------------------------------------------------------------------------
(* parse_pnml_file                                                         *)

NoneGet == Exc("AttributeError", "'NoneType' object has no attribute 'get'")
NoneText == Exc("AttributeError", "'NoneType' object has no attribute 'text'")

\* the first of two results that failed, else the pair of their values
Both(x, y) ==
    IF Failed(x) THEN x
    ELSE IF Failed(y) THEN y
    ELSE Ok(<<x.val, y.val>>)

\* [float(node.get('x')), float(node.get('y'))] for the node find() returned
ReadXY(node) ==
    IF node = <<>> THEN Err(NoneGet)
    ELSE Both(float(node[1]), float(node[2]))

\* the Transition object once its offset and position have been read
TransitionOf(id, off, pos) ==
    IF Failed(off) THEN off
    ELSE IF Failed(pos) THEN pos
    ELSE Ok([id |-> id, label |-> id, offset |-> off.val, position |-> pos.val])

\* one pass of the loop over net_node.iter('transition')
ParseTransition(e) == TransitionOf(e.id, ReadXY(e.offset), ReadXY(e.position))

\* int(marking_str.text.split(',')[1])
SecondField(parts) ==
    IF Len(parts) < 2 THEN Err(Exc("IndexError", "list index out of range"))
    ELSE int(parts[2])

\* marking_str = place_node.find('./initialMarking/value'), then the marking
ParseMarking(node) ==
    IF node = <<>> THEN Err(NoneText)
    ELSE IF node[1] # NoneTxt /\ node[1] # <<>> THEN SecondField(split(node[1], ","))
    ELSE Ok(0)

\* the Place object once offset, position and marking have been read
PlaceOf(id, off, pos, marking) ==
    IF Failed(off) THEN off
    ELSE IF Failed(pos) THEN pos
    ELSE IF Failed(marking) THEN marking
    ELSE Ok([id |-> id, label |-> id, offset |-> off.val, position |-> pos.val,
             marking |-> marking.val])

\* one pass of the loop over net_node.iter('place')
ParsePlace(e) ==
    PlaceOf(e.id, ReadXY(e.offset), ReadXY(e.position), ParseMarking(e.value))

\* one pass of the loop over net_node.iter('arc')
ParseArc(e) ==
    IF e.type = <<>> THEN Err(NoneGet)
    ELSE Ok([id |-> e.id, source |-> e.source, target |-> e.target,
             inscription |-> "1", inhibitor |-> (e.type[1] = "inhibitor"),
             role |-> None])

\* the results of a loop's passes over the elements js, in order
TransitionPasses(d, js) == [k \in 1..Len(js) |-> ParseTransition(d[js[k]])]
PlacePasses(d, js) == [k \in 1..Len(js) |-> ParsePlace(d[js[k]])]
ArcPasses(d, js) == [k \in 1..Len(js) |-> ParseArc(d[js[k]])]
Values(rs) == [k \in 1..Len(rs) |-> rs[k].val]

\* the first pass that raised ends the loops; else the value is built
FirstFailureOr(steps, val) ==
    IF \E k \in 1..Len(steps) : Failed(steps[k])
    THEN Err(steps[Min({k \in 1..Len(steps) : Failed(steps[k])})].exc)
    ELSE Ok(val)

\* the PetriNet object once the three loops have run
NetOf(name, tr, pr, ar) ==
    FirstFailureOr(tr \o pr \o ar,
                   [name |-> name,
                    transitions |-> DictOf(Values(tr)),
                    places |-> DictOf(Values(pr)),
                    edges |-> Values(ar),
                    roles |-> <<>>])

\* One pass of the loop over root.iter('net'): the transitions, then the
\* places, then the arcs below net element i.
ParseNet(d, i) ==
    NetOf(d[i].id,
          TransitionPasses(d, iter(d, i, "transition")),
          PlacePasses(d, iter(d, i, "place")),
          ArcPasses(d, iter(d, i, "arc")))

ParseNets(d, ns) == [k \in 1..Len(ns) |-> ParseNet(d, ns[k])]
ListOf(nr) == FirstFailureOr(nr, Values(nr))

\* the list of nets, or the exception of the first statement that raised
parse_pnml_file(d) == ListOf(ParseNets(d, iter(d, 0, "net")))

----------------------------------------------------------------------------
(* Edge.find_source / Edge.find_target                                     *)

\* dict[key] on a missing key raises KeyError(key)
Resolve(net, id) ==
    IF id \in Keys(net.transitions)
    THEN Ok([kind |-> "Transition", node |-> Lookup(net.transitions, id)])
    ELSE IF id \in Keys(net.places)
    THEN Ok([kind |-> "Place", node |-> Lookup(net.places, id)])
    ELSE Err(Exc("KeyError", id))

find_source(net, edge) == Resolve(net, edge.source)
find_target(net, edge) == Resolve(net, edge.target)

----------------------------------------------------------------------------
(* The documents the decoder is run on.                                    *)

NetIds == {"n1", "n2"}
Ids == {"a", "b"}

Txt0 == <<"0">>
Txt1 == <<"1">>
XY == <<Txt1, Txt0>>                  \* <offset x="1" y="0"/>
NoX == <<NoneTxt, Txt0>>              \* <position y="0"/>
TokenCount(c) == <<"t", ",", c>>      \* <value>t,c</value>

\* Every element that is no net is a child of the nearest net element before
\* it (of the root when there is none); a net element's depth is its own.
Nest(raw) ==
    LET RECURSIVE NetDepth(_)
        NetDepth(k) ==
            IF k = 0 THEN 0
            ELSE IF raw[k].tag = "net" THEN raw[k].depth
            ELSE NetDepth(k - 1)
    IN  [k \in 1..Len(raw) |->
            IF raw[k].tag = "net" THEN raw[k]
            ELSE [raw[k] EXCEPT !.depth = NetDepth(k) + 1]]

\* A net element is at most one level below the net element before it.
WellNested(raw) ==
    LET RECURSIVE NetDepth(_)
        NetDepth(k) ==
            IF k = 0 THEN 0
            ELSE IF raw[k].tag = "net" THEN raw[k].depth
            ELSE NetDepth(k - 1)
    IN  \A k \in 1..Len(raw) :
            raw[k].tag = "net" => raw[k].depth <= NetDepth(k - 1) + 1

DocumentsOver(elems, n) ==
    {Nest(raw) : raw \in {r \in UNION {[1..m -> elems] : m \in 0..n} : WellNested(r)}}

\* Structural family: nets at every depth, well-formed transitions, places
\* and arcs over the same two ids.
StructElements ==
    {NetNode(id, depth) : id \in NetIds, depth \in 1..MaxDepth}
    \cup {TransitionNode(id, XY, XY) : id \in Ids}
    \cup {PlaceNode(id, XY, XY, <<TokenCount("2")>>) : id \in Ids}
    \cup {ArcNode("e", s, t, <<"normal">>) : s \in Ids, t \in Ids}

\* Schema family: top-level nets, and elements with and without the child
\* nodes and attributes the decoder reads.
ValueNodes ==
    {<<>>,                    \* no <initialMarking><value>
     <<NoneTxt>>,             \* <value/>
     <<TokenCount("3")>>,     \* <value>t,3</value>
     <<Txt1>>,                \* <value>1</value>
     <<TokenCount("t")>>}     \* <value>t,t</value>

SchemaElements ==
    {NetNode(id, 1) : id \in NetIds}
    \cup {TransitionNode("a", off, pos) : off \in {<<>>, XY}, pos \in {<<>>, NoX, XY}}
    \cup {PlaceNode("b", XY, XY, v) : v \in ValueNodes}
    \cup {PlaceNode("b", <<>>, XY, <<TokenCount("3")>>)}
    \cup {ArcNode("e", "b", "a", ty) :
            ty \in {<<>>, <<None>>, <<"normal">>, <<"inhibitor">>}}

\* the documents of the two families
Documents(structLen, schemaLen) ==
    DocumentsOver(StructElements, structLen)
    \cup DocumentsOver(SchemaElements, schemaLen)

----------------------------------------------------------------------------
(* SpecDecode                                                              *)

Pending == [state |-> "pending", exc |-> NoExc, nets |-> <<>>]
NoLookup == [end |-> None, net |-> 0, edge |-> 0, exc |-> NoExc,
             kind |-> None, id |-> None]

IdleLoader ==
    /\ environ = None
    /\ PNML_PATH = None
    /\ requested = None
    /\ resolved = <<>>
    /\ pc = "idle"
    /\ self = None
    /\ calls = <<>>
    /\ heap = <<>>
    /\ returned = <<>>

InitDecode ==
    /\ doc \in Documents(MaxStructLen, MaxSchemaLen)
    /\ result = Pending
    /\ lookup = NoLookup
    /\ IdleLoader

\* what the caller of parse_pnml_file sees
Outcome(r) ==
    IF Failed(r) THEN [state |-> "raised", exc |-> r.exc, nets |-> <<>>]
    ELSE [state |-> "returned", exc |-> NoExc, nets |-> r.val]

\* nets = parse_pnml_file(filename): the list, or the exception raised
Decode ==
    /\ pc = "idle"
    /\ result.state = "pending"
    /\ result' = Outcome(parse_pnml_file(doc))
    /\ UNCHANGED <<doc, lookup, environ, PNML_PATH, requested, resolved, pc, self,
                   calls, heap, returned>>

Looked(end, n, e, r) ==
    [end |-> end, net |-> n, edge |-> e, exc |-> r.exc,
     kind |-> IF Failed(r) THEN None ELSE r.val.kind,
     id |-> IF Failed(r) THEN None ELSE r.val.node.id]

\* edge.find_source() on an arc of a returned net
FindSource ==
    /\ pc = "idle"
    /\ result.state = "returned"
    /\ \E n \in 1..Len(result.nets) : \E e \in 1..Len(result.nets[n].edges) :
         lookup' = Looked("source", n, e,
                          find_source(result.nets[n], result.nets[n].edges[e]))
    /\ UNCHANGED <<doc, result, environ, PNML_PATH, requested, resolved, pc, self,
                   calls, heap, returned>>

\* edge.find_target() on an arc of a returned net
FindTarget ==
    /\ pc = "idle"
    /\ result.state = "returned"
    /\ \E n \in 1..Len(result.nets) : \E e \in 1..Len(result.nets[n].edges) :
         lookup' = Looked("target", n, e,
                          find_target(result.nets[n], result.nets[n].edges[e]))
    /\ UNCHANGED <<doc, result, environ, PNML_PATH, requested, resolved, pc, self,
                   calls, heap, returned>>

NextDecode == Decode \/ FindSource \/ FindTarget

SpecDecode == InitDecode /\ [][NextDecode]_vars

----------------------------------------------------------------------------
(* What the documents hold, read off the elements (not off the decoder).   *)

NetElements(d) == {i \in 1..Len(d) : d[i].tag = "net"}
TopLevelNets(d) == SelectSeq([i \in 1..Len(d) |-> i],
                             LAMBDA i : d[i].tag = "net" /\ d[i].depth = 1)

\* the elements a pass over net element n handles
Handled(d, n) ==
    {j \in 1..Len(d) :
        /\ d[j].tag \in {"transition", "place", "arc"}
        /\ IsDescendant(d, n, j)}

HasXY(node) == node # <<>> /\ IsNumeral(node[1]) /\ IsNumeral(node[2])

\* the required field an element lacks, None when it lacks none
MissingField(e) ==
    IF e.tag \in {"transition", "place"}
    THEN IF e.offset = <<>> \/ (e.offset # <<>> /\ NoneTxt \in {e.offset[1], e.offset[2]})
         THEN "offset"
         ELSE IF e.position = <<>>
                 \/ (e.position # <<>> /\ NoneTxt \in {e.position[1], e.position[2]})
         THEN "position"
         ELSE None
    ELSE IF e.tag = "arc" /\ e.type = <<>> THEN "type"
    ELSE None

MarkingAbsentOrEmpty(e) == e.value = <<>> \/ e.value[1] \in {NoneTxt, <<>>}

MarkingIsTokenCount(e) ==
    /\ e.value # <<>>
    /\ e.value[1] \notin {NoneTxt, <<>>}
    /\ Len(split(e.value[1], ",")) >= 2
    /\ IsNumeral(split(e.value[1], ",")[2])

\* nothing is missing from the document but, possibly, marking texts
OnlyMarkingsMissing(d) ==
    \A n \in NetElements(d) : \A j \in Handled(d, n) :
        /\ d[j].tag \in {"transition", "place"} => HasXY(d[j].offset) /\ HasXY(d[j].position)
        /\ d[j].tag = "place" => MarkingAbsentOrEmpty(d[j]) \/ MarkingIsTokenCount(d[j])
        /\ d[j].tag = "arc" => d[j].type # <<>>

\* the place element that decides the decoded place `id` of net element n:
\* the last one in document order
LastPlace(d, n, id) ==
    LET js == {j \in Handled(d, n) : d[j].tag = "place" /\ d[j].id = id}
    IN  d[CHOOSE j \in js : \A k \in js : k <= j]

----------------------------------------------------------------------------
(* Claims on the decoder.                                                  *)

\* C1: a successful decode returns one net per top-level net element, the
\* i-th named by the id of the i-th top-level net element; nested net
\* elements add no entries.
C1_OneNetPerTopLevelElement ==
    result.state = "returned" =>
        LET top == TopLevelNets(doc)
        IN  /\ Len(result.nets) = Len(top)
            /\ \A k \in 1..Len(top) : result.nets[k].name = doc[top[k]].id

\* C2: when nothing but marking texts is missing from the document (a place
\* without initialMarking/value, or with an empty value), decoding succeeds
\* and every such place has marking 0.
C2_MissingMarkingIsZero ==
    (result.state # "pending" /\ OnlyMarkingsMissing(doc)) =>
        /\ result.state = "returned"
        /\ LET ns == iter(doc, 0, "net")
           IN  \A k \in 1..Len(ns) : \A q \in 1..Len(result.nets[k].places) :
                 LET place == result.nets[k].places[q]
                 IN  MarkingAbsentOrEmpty(LastPlace(doc, ns[k], place.id))
                        => place.marking = 0

\* C3: when a transition, place or arc that the decoder handles lacks a
\* required child node or attribute, decode raises SchemaViolation naming the
\* net, the element kind, the element id and the missing field, and returns
\* no nets.
C3_MissingFieldIsSchemaViolation ==
    LET lacking == {nj \in NetElements(doc) \X (1..Len(doc)) :
                       /\ nj[2] \in Handled(doc, nj[1])
                       /\ MissingField(doc[nj[2]]) # None}
    IN  (result.state # "pending" /\ lacking # {}) =>
            /\ result.state = "raised"
            /\ result.nets = <<>>
            /\ result.exc.type = "SchemaViolation"
            /\ \E nj \in lacking :
                 result.exc.arg = <<doc[nj[1]].id, doc[nj[2]].tag, doc[nj[2]].id,
                                    MissingField(doc[nj[2]])>>

\* C4: in every returned net, each arc's source id and target id resolve,
\* each to exactly one place or transition of that net.
C4_ArcEndpointsResolve ==
    result.state = "returned" =>
        \A n \in 1..Len(result.nets) : \A e \in 1..Len(result.nets[n].edges) :
            LET net == result.nets[n]
                edge == net.edges[e]
                one(id) == (id \in Keys(net.transitions)) # (id \in Keys(net.places))
            IN  /\ ~Failed(find_source(net, edge)) /\ one(edge.source)
                /\ ~Failed(find_target(net, edge)) /\ one(edge.target)

\* C5: resolving an endpoint id looks in the transitions first, then in the
\* places; an id in neither raises DanglingReference carrying the id.
C5_UnresolvedIsDanglingReference ==
    lookup.end # None =>
        LET net == result.nets[lookup.net]
            edge == net.edges[lookup.edge]
            id == IF lookup.end = "source" THEN edge.source ELSE edge.target
        IN  /\ id \in Keys(net.transitions) =>
                lookup.exc = NoExc /\ lookup.kind = "Transition" /\ lookup.id = id
            /\ id \in Keys(net.places) \ Keys(net.transitions) =>
                lookup.exc = NoExc /\ lookup.kind = "Place" /\ lookup.id = id
            /\ id \notin Keys(net.transitions) \cup Keys(net.places) =>
                /\ lookup.exc.type = "DanglingReference"
                /\ \E k \in 1..Len(lookup.exc.arg) : lookup.exc.arg[k] = id

\* C9: no arc of a returned net joins two places or two transitions.
C9_ArcsJoinPlaceAndTransition ==
    result.state = "returned" =>
        \A n \in 1..Len(result.nets) : \A e \in 1..Len(result.nets[n].edges) :
            LET net == result.nets[n]
                s == find_source(net, net.edges[e])
                t == find_target(net, net.edges[e])
            IN  ~(~Failed(s) /\ ~Failed(t) /\ s.val.kind = t.val.kind)

----------------------------------------------------------------------------
(* ptnet.py: the base directory.                                           *)

DefaultDir == "examples"      \* os.path.abspath(__file__ + '/../examples')
Dirs == {"d1", "d2"}          \* directories a caller or the environment names
Names == {"n1", "n2"}         \* schema names

\* PNML_PATH as the import of ptnet leaves it
ImportPath(env) == IF env = None THEN DefaultDir ELSE env

\* The body of set_pnml_path assigns to a name that is local to the call:
\* the value of the module global after the call.
set_pnml_path(global, pnml_dir) == global

\* os.path.join(PNML_PATH, '%s.xml' % name)
schema_to_file(path, name) == [dir |-> path, file |-> <<name, ".xml">>]

\* the pattern handed to glob: PNML_PATH + '/*.xml'
schema_files(path) == [dir |-> path, file |-> <<"*", ".xml">>]

----------------------------------------------------------------------------
(* The dsl module that reindex() calls.  Its source is not part of the     *)
(* files under src/; the four functions follow the Net Indexer section of  *)
(* the specification.                                                      *)

\* role_pass: records the sources of the inhibitor arcs as the net's roles
dsl_append_roles(net) ==
    LET inhibitors == SelectSeq(net.edges, LAMBDA e : e.inhibitor)
    IN  [net EXCEPT !.roles = [k \in 1..Len(inhibitors) |-> inhibitors[k].source]]

\* Place indexing: one entry {offset, inital} per place, the offsets distinct
\* and in 0..n-1.  The specification assigns them in document order; the set
\* holds that index and every other assignment of distinct offsets, which is
\* all that PTNet relies on.
dsl_places(net) ==
    LET n == Len(net.places)
    IN  {[k \in 1..n |-> [id |-> net.places[k].id, offset |-> f[k],
                           inital |-> net.places[k].marking]] :
            f \in {g \in [1..n -> 0..(n - 1)] :
                      \A i, j \in 1..n : i # j => g[i] # g[j]}}

\* the transition table before the arc pass: one entry per transition
dsl_transitions(net, places) ==
    [k \in 1..Len(net.transitions) |-> [id |-> net.transitions[k].id, arcs |-> <<>>]]

\* arc_pass: resolves every arc (the Reference Resolver) and attaches it to
\* the entries of the transitions it touches; a failing resolution propagates
dsl_apply_edges(net, places, transitions) ==
    LET ends == [k \in 1..Len(net.edges) |->
                    <<find_source(net, net.edges[k]), find_target(net, net.edges[k])>>]
        bad == {k \in 1..Len(ends) : Failed(ends[k][1]) \/ Failed(ends[k][2])}
        touches(e, id) == e.source = id \/ e.target = id
    IN  IF bad # {}
        THEN LET k == Min(bad)
             IN  Err(IF Failed(ends[k][1]) THEN ends[k][1].exc ELSE ends[k][2].exc)
        ELSE Ok([t \in 1..Len(transitions) |->
                    [transitions[t] EXCEPT
                        !.arcs = SelectSeq(net.edges,
                                           LAMBDA e : touches(e, transitions[t].id))]])

----------------------------------------------------------------------------
(* PTNet                                                                   *)

\* the body of reindex(): its four statements, in program order
ReindexSwapped == <<"places", "append_roles", "transitions", "apply_edges">>
reindex == <<"append_roles", "places", "transitions", "apply_edges">>

\* the statement of reindex() that runs next
Statement ==
    IF pc = "reindex" /\ Len(calls) < Len(reindex)
    THEN reindex[Len(calls) + 1] ELSE None

\* after statement number Len(calls) + 1: the next statement, or done
AfterStatement == IF Len(calls) + 1 = Len(reindex) THEN "ready" ELSE "reindex"

\* objects on the heap
List(items) == [type |-> "list", items |-> items]
Dict(items) == [type |-> "dict", items |-> items]
Alloc(h, obj) == [heap |-> Append(h, obj), ref |-> Len(h) + 1]

\* a plausible slip: one list kept and handed out again on every call
empty_vector_cached(h, places) ==
    LET lists == {a \in 1..Len(h) : h[a].type = "list"}
    IN  IF lists = {} THEN Alloc(h, List([k \in 1..Len(places) |-> 0]))
        ELSE [heap |-> h, ref |-> Min(lists)]

\* [0] * len(self.places): a new list
empty_vector(h, places) == Alloc(h, List([k \in 1..Len(places) |-> 0]))

\* a plausible slip: the k-th place of the index written at position k
inital_vector_in_order(h, places) ==
    LET v == empty_vector(h, places)
    IN  [heap |-> [v.heap EXCEPT ![v.ref].items =
                        [k \in 1..Len(places) |-> places[k].inital]],
         ref |-> v.ref]

\* vector = self.empty_vector(); then vector[place['offset']] = place['inital']
\* for every item of self.places, in the order of the dict
inital_vector(h, places) ==
    LET v == empty_vector(h, places)
        RECURSIVE Fill(_, _)
        Fill(items, k) ==
            IF k > Len(places) THEN items
            ELSE Fill([items EXCEPT ![places[k].offset + 1] = places[k].inital], k + 1)
    IN  [heap |-> [v.heap EXCEPT ![v.ref].items = Fill(v.heap[v.ref].items, 1)],
         ref |-> v.ref]

\* {'state': self.inital_vector(), 'transitions': self.transitions}
to_machine(h, places, transitions) ==
    LET v == inital_vector(h, places)
    IN  [heap |-> v.heap, state |-> v.ref, transitions |-> transitions]

\* the documents PTNet is constructed on: one net with up to MaxPlaces places
\* and, possibly, a transition with an arc; a document without a net; a
\* document the decoder raises on
IndexIds == {"a", "b", "c"}
IndexPlaces ==
    {PlaceNode("a", XY, XY, <<TokenCount("1")>>),
     PlaceNode("b", XY, XY, <<TokenCount("2")>>),
     PlaceNode("c", XY, XY, <<NoneTxt>>)}
IndexTails ==
    {<<>>,
     <<TransitionNode("t", XY, XY), ArcNode("e", "a", "t", <<"normal">>)>>,
     <<TransitionNode("t", XY, XY), ArcNode("e", "t", "b", <<"inhibitor">>)>>}
IndexDocuments ==
    {Nest(<<NetNode("n1", 1)>> \o ps \o tail) :
        ps \in UNION {[1..m -> IndexPlaces] : m \in 0..MaxPlaces}, tail \in IndexTails}
    \cup {<<>>, Nest(<<NetNode("n1", 1), PlaceNode("a", XY, XY, <<>>)>>)}

\* self.net = petrinet.parse_pnml_file(self.filename)[0]: an exception of the
\* decoder, or the IndexError of [0] on an empty list, leaves no PTNet.
\* self.places and self.transitions are references to objects on the heap;
\* 0 is None.
Loaded(name, filename, r) ==
    /\ resolved' = Append(resolved, [fn |-> "schema_to_file", requested |-> requested,
                                     path |-> filename])
    /\ result' = Outcome(r)
    /\ IF Failed(r) \/ r.val = <<>>
       THEN pc' = "failed" /\ self' = None
       ELSE /\ pc' = "reindex"
            /\ self' = [name |-> name, places |-> 0, transitions |-> 0,
                        filename |-> filename, net |-> r.val[1]]

\* PTNet.__init__ up to the call of reindex()
Load ==
    /\ pc = "idle"
    /\ \E name \in Names :
         Loaded(name, schema_to_file(PNML_PATH, name), parse_pnml_file(doc))
    /\ UNCHANGED <<doc, lookup, environ, PNML_PATH, requested, calls, heap, returned>>

\* what a statement leaves behind: the function called, whether the place
\* index and the transition index existed when it was called, and the place
\* index when it returned one
Called(fn, res) ==
    [fn |-> fn, places |-> self.places # 0,
     transitions |-> self.transitions # 0, result |-> res]

\* dsl.append_roles(self.net)
AppendRoles ==
    /\ Statement = "append_roles"
    /\ self' = [self EXCEPT !.net = dsl_append_roles(self.net)]
    /\ calls' = Append(calls, Called("append_roles", <<>>))
    /\ pc' = AfterStatement
    /\ UNCHANGED <<doc, result, lookup, environ, PNML_PATH, requested, resolved,
                   heap, returned>>

\* self.places = dsl.places(self.net): the index is an object of its own
Places ==
    /\ Statement = "places"
    /\ \E index \in dsl_places(self.net) :
         /\ heap' = Alloc(heap, Dict(index)).heap
         /\ self' = [self EXCEPT !.places = Alloc(heap, Dict(index)).ref]
         /\ calls' = Append(calls, Called("places", index))
    /\ pc' = AfterStatement
    /\ UNCHANGED <<doc, result, lookup, environ, PNML_PATH, requested, resolved,
                   returned>>

\* self.transitions = dsl.transitions(self.net, self.places): the table is an
\* object of its own, self.transitions a reference to it
Transitions ==
    /\ Statement = "transitions"
    /\ LET new == Alloc(heap, Dict(dsl_transitions(self.net, heap[self.places].items)))
       IN  /\ heap' = new.heap
           /\ self' = [self EXCEPT !.transitions = new.ref]
    /\ calls' = Append(calls, Called("transitions", <<>>))
    /\ pc' = AfterStatement
    /\ UNCHANGED <<doc, result, lookup, environ, PNML_PATH, requested, resolved,
                   returned>>

\* dsl.apply_edges(self.net, self.places, self.transitions): works on the
\* table it is handed; an exception ends __init__
ApplyEdges ==
    /\ Statement = "apply_edges"
    /\ LET r == dsl_apply_edges(self.net, heap[self.places].items,
                                 heap[self.transitions].items)
       IN  IF Failed(r)
           THEN pc' = "failed" /\ heap' = heap
           ELSE /\ pc' = AfterStatement
                /\ heap' = [heap EXCEPT ![self.transitions].items = r.val]
    /\ calls' = Append(calls, Called("apply_edges", <<>>))
    /\ UNCHANGED <<doc, result, lookup, environ, PNML_PATH, requested, resolved,
                   self, returned>>

\* some list handed out earlier has been written to by its caller
Dirty == \E k \in 1..Len(returned) : heap[returned[k].ref].items # returned[k].value

Returned(call, h, ref, table) ==
    [call |-> call, ref |-> ref, value |-> h[ref].items, transitions |-> table,
     dirty |-> Dirty]

\* net.empty_vector()
EmptyVector ==
    /\ pc = "ready" /\ Len(returned) < MaxCalls
    /\ LET v == empty_vector(heap, heap[self.places].items)
       IN  /\ heap' = v.heap
           /\ returned' = Append(returned, Returned("empty_vector", v.heap, v.ref, 0))
    /\ UNCHANGED <<doc, result, lookup, environ, PNML_PATH, requested, resolved,
                   pc, self, calls>>

\* net.inital_vector()
InitalVector ==
    /\ pc = "ready" /\ Len(returned) < MaxCalls
    /\ LET v == inital_vector(heap, heap[self.places].items)
       IN  /\ heap' = v.heap
           /\ returned' = Append(returned, Returned("inital_vector", v.heap, v.ref, 0))
    /\ UNCHANGED <<doc, result, lookup, environ, PNML_PATH, requested, resolved,
                   pc, self, calls>>

\* net.to_machine()
ToMachine ==
    /\ pc = "ready" /\ Len(returned) < MaxCalls
    /\ LET m == to_machine(heap, heap[self.places].items, self.transitions)
       IN  /\ heap' = m.heap
           /\ returned' = Append(returned,
                                 Returned("to_machine", m.heap, m.state, m.transitions))
    /\ UNCHANGED <<doc, result, lookup, environ, PNML_PATH, requested, resolved,
                   pc, self, calls>>

\* the entries callers have overwritten so far
Writes ==
    {<<a, k>> \in (1..Len(heap)) \X (1..Cardinality(IndexIds)) :
        /\ heap[a].type = "list"
        /\ k <= Len(heap[a].items)
        /\ heap[a].items[k] = -1}

\* a caller writes into a list it was returned (a vector, or the state of a
\* snapshot): vector[k] = -1
CallerWrites ==
    /\ Cardinality(Writes) < MaxWrites
    /\ \E i \in 1..Len(returned) :
         LET a == returned[i].ref
         IN  \E k \in 1..Len(heap[a].items) :
               /\ heap[a].items[k] # -1
               /\ heap' = [heap EXCEPT ![a].items[k] = -1]
    /\ UNCHANGED <<doc, result, lookup, environ, PNML_PATH, requested, resolved,
                   pc, self, calls, returned>>

InitIndex ==
    /\ doc \in IndexDocuments
    /\ result = Pending
    /\ lookup = NoLookup
    /\ environ = None
    /\ PNML_PATH = ImportPath(environ)
    /\ requested = None
    /\ resolved = <<>>
    /\ pc = "idle"
    /\ self = None
    /\ calls = <<>>
    /\ heap = <<>>
    /\ returned = <<>>

NextIndex ==
    \/ Load
    \/ AppendRoles
    \/ Places
    \/ Transitions
    \/ ApplyEdges
    \/ EmptyVector
    \/ InitalVector
    \/ ToMachine
    \/ CallerWrites

SpecIndex == InitIndex /\ [][NextIndex]_vars

----------------------------------------------------------------------------
(* SpecPath                                                                *)

\* set_pnml_path(pnml_dir)
SetPnmlPath ==
    /\ \E pnml_dir \in Dirs :
         /\ PNML_PATH' = set_pnml_path(PNML_PATH, pnml_dir)
         /\ requested' = pnml_dir
    /\ UNCHANGED <<doc, result, lookup, environ, resolved, pc, self, calls, heap,
                   returned>>

\* schema_to_file(name)
SchemaToFile ==
    /\ Len(resolved) < MaxPathCalls
    /\ \E name \in Names :
         resolved' = Append(resolved, [fn |-> "schema_to_file", requested |-> requested,
                                       path |-> schema_to_file(PNML_PATH, name)])
    /\ UNCHANGED <<doc, result, lookup, environ, PNML_PATH, requested, pc, self,
                   calls, heap, returned>>

\* schema_files()
SchemaFiles ==
    /\ Len(resolved) < MaxPathCalls
    /\ resolved' = Append(resolved, [fn |-> "schema_files", requested |-> requested,
                                     path |-> schema_files(PNML_PATH)])
    /\ UNCHANGED <<doc, result, lookup, environ, PNML_PATH, requested, pc, self,
                   calls, heap, returned>>

InitPath ==
    /\ doc \in {<<>>, <<NetNode("n1", 1)>>}
    /\ result = Pending
    /\ lookup = NoLookup
    /\ environ \in {None} \cup Dirs
    /\ PNML_PATH = ImportPath(environ)
    /\ requested = None
    /\ resolved = <<>>
    /\ pc = "idle"
    /\ self = None
    /\ calls = <<>>
    /\ heap = <<>>
    /\ returned = <<>>

NextPath == SetPnmlPath \/ SchemaToFile \/ SchemaFiles \/ Load

SpecPath == InitPath /\ [][NextPath]_vars

----------------------------------------------------------------------------
(* Claims on PTNet and on the base directory.                              *)

Fns == [k \in 1..Len(calls) |-> calls[k].fn]
PlaceIndex == heap[self.places].items
Zeros == [i \in 1..Len(PlaceIndex) |-> 0]

\* the marking vector the place index describes
InitialMarking ==
    [i \in 1..Len(PlaceIndex) |->
        PlaceIndex[CHOOSE p \in 1..Len(PlaceIndex) : PlaceIndex[p].offset = i - 1].inital]

\* C6: one index build invokes append_roles, places, transitions and
\* apply_edges in this order, each once; append_roles never once the place
\* index exists, apply_edges never before both indices exist.
C6_ReindexCallOrder ==
    LET order == <<"append_roles", "places", "transitions", "apply_edges">>
    IN  /\ Len(calls) <= Len(order)
        /\ Fns = SubSeq(order, 1, Len(calls))
        /\ pc = "ready" => Fns = order
        /\ \A k \in 1..Len(calls) :
             /\ calls[k].fn = "append_roles" => ~calls[k].places
             /\ calls[k].fn = "apply_edges" => calls[k].places /\ calls[k].transitions

\* a build that ran to its end, on a net with an arc to apply
C6_BuildCompleted ==
    /\ pc = "ready"
    /\ Len(calls) = 4
    /\ self.net.edges # <<>>

\* C7: with distinct offsets in 0..n-1, inital_vector() has length n and holds
\* each place's inital at the place's offset; empty_vector() has length n and
\* holds zeros only.
C7_VectorsFollowIndex ==
    \A k \in 1..Len(returned) :
        LET r == returned[k]
        IN  /\ Len(r.value) = Len(PlaceIndex)
            /\ r.call = "empty_vector" => \A i \in 1..Len(r.value) : r.value[i] = 0
            /\ r.call = "inital_vector" =>
                 \A p \in 1..Len(PlaceIndex) :
                    r.value[PlaceIndex[p].offset + 1] = PlaceIndex[p].inital

\* both vectors returned for an index of two places whose offsets are not in
\* the order of the index and whose markings differ
C7_BothVectorsReturned ==
    /\ \E k \in 1..Len(returned) : returned[k].call = "inital_vector"
    /\ \E k \in 1..Len(returned) : returned[k].call = "empty_vector"
    /\ Len(PlaceIndex) = 2
    /\ PlaceIndex[1].offset = 1 /\ PlaceIndex[2].offset = 0
    /\ PlaceIndex[1].inital # PlaceIndex[2].inital

\* C8: every call returns a list of its own holding the zero vector or the
\* initial marking, whatever callers wrote into the lists returned before; a
\* write changes one returned list only and leaves the place index as built;
\* every snapshot's 'transitions' is the one table self.transitions refers to.
C8_FreshVectorsSharedTable ==
    /\ \A i, j \in 1..Len(returned) : i # j => returned[i].ref # returned[j].ref
    /\ \A k \in 1..Len(returned) :
         LET r == returned[k]
         IN  /\ r.call = "empty_vector" => r.value = Zeros
             /\ r.call \in {"inital_vector", "to_machine"} => r.value = InitialMarking
             /\ r.call = "to_machine" => r.transitions = self.transitions
             /\ r.ref \notin {self.places, self.transitions}
    /\ Cardinality({k \in 1..Len(returned) :
                       heap[returned[k].ref].items # returned[k].value})
          <= Cardinality(Writes)
    /\ pc = "ready" =>
         \E k \in 1..Len(calls) : calls[k].fn = "places" /\ calls[k].result = PlaceIndex

\* a snapshot taken after a caller wrote into a vector returned before, on a
\* net with places
C8_SnapshotAfterWrite ==
    \E k \in 1..Len(returned) :
        /\ returned[k].call = "to_machine"
        /\ returned[k].dirty
        /\ returned[k].value # <<>>

\* C10: once set_pnml_path(d) has been called, schema_to_file, schema_files
\* and the PTNet load resolve under d; with no override at all they resolve
\* under the default examples directory.
C10_OverrideIsFollowed ==
    \A k \in 1..Len(resolved) :
        LET r == resolved[k]
        IN  /\ r.requested # None => r.path.dir = r.requested
            /\ (r.requested = None /\ environ = None) => r.path.dir = DefaultDir

====
